---- MODULE Spec2Model ----
(***************************************************************************)
(* Model of torch::detail::TensorDataContainer                             *)
(* (torch/csrc/api/src/detail/TensorDataContainer.cpp).                    *)
(*                                                                         *)
(* A TensorDataContainer is a record with the members of the C++ class:    *)
(* type_, sizes_, scalar_type_, scalar_, init_list_, tensor_.  A nested    *)
(* brace literal is evaluated bottom-up, so the client of the class is     *)
(* modelled as a stack of already constructed containers: the constructors *)
(* push, the initializer_list constructor pops its elements and pushes the *)
(* list built from them.  convert_to_tensor and the accessors act on the   *)
(* finished literal (a stack of one container) and leave their outcome,    *)
(* and the sequence of ATen calls they made, in `res`.                     *)
(*                                                                         *)
(* Sequences are 1-based here; a C++ index i is i+1 in the model.          *)
(***************************************************************************)
EXTENDS Integers, Sequences, FiniteSets, TLC

VARIABLES stack, res, grad_mode, non_var_type_mode

vars == <<stack, res, grad_mode, non_var_type_mode>>

\* ---------------------------------------------------------------- bounds
MaxStack == 3      \* containers alive at once while a literal is evaluated
MaxNodes == 5      \* containers (nested ones included) alive at once
MaxVal == 2        \* scalar values are 1..MaxVal before conversion
MaxFlatLen == 1    \* longest ArrayRef handed to the ArrayRef constructor

\* --------------------------------------------------------------- the kinds
Kinds == {"Bool", "Int", "Float"}
AllKinds == Kinds \cup {"Undefined"}
\* the kinds the literals of the model are written in
LeafKinds == {"Bool", "Int"}
Devices == {"CPU", "CUDA"}

\* c10::get_default_dtype(): what TensorOptions::dtype() is when none was set
DefaultDtype == "Float"

\* conversion of a value to an element kind (c10::Scalar::to<T>, fill_, copy_)
Cast(v, k) == IF k = "Bool" THEN (IF v = 0 THEN 0 ELSE 1) ELSE v

ValuesOf(k) == {Cast(v, k) : v \in 1..MaxVal}

\* TensorOptions: a device, and a dtype that may be unset
OptionsSet == [device : Devices, dtype : Kinds \cup {"Unset"}]

dtype_of(options) ==
  IF options.dtype = "Unset" THEN DefaultDtype ELSE options.dtype

\* ------------------------------------------------------------- at::Tensor
\* A dense tensor: its sizes, element kind, device and row-major storage.
UndefinedTensor ==
  [sizes |-> <<>>, kind |-> "Undefined", device |-> "CPU", storage |-> <<>>,
   defined |-> FALSE]

RECURSIVE numel(_)
numel(sizes) == IF sizes = <<>> THEN 1 ELSE Head(sizes) * numel(Tail(sizes))

\* one ATen call, as a spying backend records it: the call, the two
\* thread-local modes at the time of the call, the device of the tensor the
\* call produces or writes, and (for fill_) the storage cell written
Call(op, nv, gm, device, cell) ==
  [op |-> op, non_var_type_mode |-> nv, grad_mode |-> gm, device |-> device,
   cell |-> cell]

\* ----------------------------------------------------- TensorDataContainer
NoContainer ==
  [type_ |-> "None", sizes_ |-> <<>>, scalar_type_ |-> "Undefined",
   scalar_ |-> 0, init_list_ |-> <<>>, tensor_ |-> UndefinedTensor]

\* TensorDataContainer()
DefaultContainer ==
  [type_ |-> "InitList", sizes_ |-> <<0>>, scalar_type_ |-> "Undefined",
   scalar_ |-> 0, init_list_ |-> <<>>, tensor_ |-> UndefinedTensor]

\* TensorDataContainer(T value)
ScalarContainer(k, value) ==
  [type_ |-> "Scalar", sizes_ |-> <<>>, scalar_type_ |-> k,
   scalar_ |-> value, init_list_ |-> <<>>, tensor_ |-> UndefinedTensor]

\* TensorDataContainer(at::ArrayRef<T> values): at::native::tensor on CPU
TensorContainer(k, values) ==
  [type_ |-> "Tensor", sizes_ |-> <<Len(values)>>, scalar_type_ |-> k,
   scalar_ |-> 0, init_list_ |-> <<>>,
   tensor_ |-> [sizes |-> <<Len(values)>>, kind |-> k, device |-> "CPU",
                storage |-> values, defined |-> TRUE]]

\* the loop with the two checks in the other order
RECURSIVE check_elems_KindFirst(_, _, _)
check_elems_KindFirst(init_list, first_elem, i) ==
  IF i > Len(init_list) THEN "ok"
  ELSE IF init_list[i].scalar_type_ # first_elem.scalar_type_
       THEN "KindMismatch"
  ELSE IF init_list[i].sizes_ # first_elem.sizes_ THEN "ShapeMismatch"
  ELSE check_elems_KindFirst(init_list, first_elem, i + 1)

\* the loop without the check of the scalar type
RECURSIVE check_elems_NoKindCheck(_, _, _)
check_elems_NoKindCheck(init_list, first_elem, i) ==
  IF i > Len(init_list) THEN "ok"
  ELSE IF init_list[i].sizes_ # first_elem.sizes_ THEN "ShapeMismatch"
  ELSE check_elems_NoKindCheck(init_list, first_elem, i + 1)

\* the loop of the initializer_list constructor: the first failing
\* TORCH_CHECK ends it
RECURSIVE check_elems(_, _, _)
check_elems(init_list, first_elem, i) ==
  IF i > Len(init_list) THEN "ok"
  ELSE IF init_list[i].sizes_ # first_elem.sizes_ THEN "ShapeMismatch"
  ELSE IF init_list[i].scalar_type_ # first_elem.scalar_type_
       THEN "KindMismatch"
  ELSE check_elems(init_list, first_elem, i + 1)

\* the constructor with the length pushed after the first element's sizes
InitListContainer_LengthLast(init_list, first_elem) ==
  [type_ |-> "InitList",
   sizes_ |-> first_elem.sizes_ \o <<Len(init_list)>>,
   scalar_type_ |-> first_elem.scalar_type_,
   scalar_ |-> 0, init_list_ |-> init_list, tensor_ |-> UndefinedTensor]

\* TensorDataContainer(std::initializer_list<TensorDataContainer>), once the
\* checks passed; first_elem is *(init_list.begin())
InitListContainer(init_list, first_elem) ==
  [type_ |-> "InitList",
   sizes_ |-> <<Len(init_list)>> \o first_elem.sizes_,
   scalar_type_ |-> first_elem.scalar_type_,
   scalar_ |-> 0, init_list_ |-> init_list, tensor_ |-> UndefinedTensor]

\* what *(init_list.begin()) reads when the list is empty: begin() == end(),
\* the read is out of bounds and yields any sizes and any scalar type
GarbageSizes == {<<>>, <<1>>}
GarbageElems ==
  {[NoContainer EXCEPT !.sizes_ = s, !.scalar_type_ = k] :
     s \in GarbageSizes, k \in AllKinds}

is_scalar(self) == self.type_ = "Scalar"
is_init_list(self) == self.type_ = "InitList"
is_tensor(self) == self.type_ = "Tensor"

RECURSIVE Nodes(_), NodesOfSeq(_)
Nodes(c) == 1 + NodesOfSeq(c.init_list_)
NodesOfSeq(s) == IF s = <<>> THEN 0 ELSE Nodes(Head(s)) + NodesOfSeq(Tail(s))

\* --------------------------------------------------------- the result slot
NoOptions == [device |-> "CPU", dtype |-> "Unset"]

\* The outcome of the last operation: its name, how it ended, the elements it
\* was given, the container it built or was called on, the options and the
\* tensor of a conversion, the ATen calls it made, what an accessor returned.
Result(op, status, children, container, options, tensor, log) ==
  [op |-> op, status |-> status, children |-> children,
   container |-> container, options |-> options, tensor |-> tensor,
   log |-> log, payload |-> 0]

\* ------------------------------------------------------- convert_to_tensor
\* The state threaded through fill_tensor: whether an assertion has failed,
\* the storage of the tensor being filled, its element kind and device, the
\* calls made so far and the two thread-local modes.
FillState(status, storage, kind, device, log, gm, nv) ==
  [status |-> status, storage |-> storage, kind |-> kind, device |-> device,
   log |-> log, grad_mode |-> gm, non_var_type_mode |-> nv]

\* at::Tensor::operator[](index): the sub-view along the first dimension,
\* an alias of the same storage
select(tensor, index) ==
  [offset |-> tensor.offset + (index - 1) * numel(Tail(tensor.sizes)),
   sizes |-> Tail(tensor.sizes)]

\* at::Tensor::fill_(scalar): every cell of the view takes the converted value
fill_(storage, tensor, kind, scalar) ==
  [i \in 1..Len(storage) |->
     IF i >= tensor.offset /\ i < tensor.offset + numel(tensor.sizes)
     THEN Cast(scalar, kind) ELSE storage[i]]

RECURSIVE fill_tensor(_, _, _), fill_elems(_, _, _, _)
RECURSIVE fill_elems_NoIncrement(_, _, _, _)
\* TensorDataContainer::fill_tensor(at::Tensor tensor)
fill_tensor(self, tensor, st) ==
  IF st.status # "ok" THEN st
  ELSE IF is_scalar(self) THEN
    IF Len(tensor.sizes) # 0
    THEN [st EXCEPT !.status = "InternalInvariant"]
    ELSE \* at::NoGradGuard guard; tensor.fill_(scalar_); the guard is released
         [st EXCEPT
            !.storage = fill_(st.storage, tensor, st.kind, self.scalar_),
            !.log = Append(@, Call("fill_", st.non_var_type_mode, FALSE,
                                   st.device, tensor.offset))]
  ELSE IF is_init_list(self) THEN
    IF Len(tensor.sizes) = 0 \/ tensor.sizes[1] # Len(self.init_list_)
    THEN [st EXCEPT !.status = "InternalInvariant"]
    ELSE fill_elems(self, tensor, st, 1)
  ELSE \* is_tensor(), or no known type: TORCH_INTERNAL_ASSERT(false, ...)
    [st EXCEPT !.status = "InternalInvariant"]

\* the loop without `index++`: every element is written to tensor[0]
fill_elems_NoIncrement(self, tensor, st, index) ==
  IF index > Len(self.init_list_) \/ st.status # "ok" THEN st
  ELSE fill_elems_NoIncrement(
         self, tensor,
         fill_tensor(
           self.init_list_[index], select(tensor, 1),
           [st EXCEPT !.log = Append(@, Call("index", st.non_var_type_mode,
                                             st.grad_mode, st.device, 0))]),
         index + 1)

\* the loop `for (const auto& elem : init_list_)` of fill_tensor
fill_elems(self, tensor, st, index) ==
  IF index > Len(self.init_list_) \/ st.status # "ok" THEN st
  ELSE fill_elems(
         self, tensor,
         fill_tensor(
           self.init_list_[index], select(tensor, index),
           [st EXCEPT !.log = Append(@, Call("index", st.non_var_type_mode,
                                             st.grad_mode, st.device, 0))]),
         index + 1)

\* what at::empty leaves in the cells it allocates
UninitValues == {0, MaxVal + 1}

\* TensorDataContainer::convert_to_tensor(const at::TensorOptions& options)
convert_to_tensor(self, options, gm, nv, uninit) ==
  IF is_scalar(self) THEN
    \* AutoNonVariableTypeMode(true); at::scalar_tensor(scalar_, options)
    [status |-> "ok",
     tensor |-> [sizes |-> <<>>, kind |-> dtype_of(options),
                 device |-> options.device,
                 storage |-> <<Cast(self.scalar_, dtype_of(options))>>,
                 defined |-> TRUE],
     log |-> <<Call("scalar_tensor", TRUE, gm, options.device, 0)>>,
     grad_mode |-> gm, non_var_type_mode |-> nv]
  ELSE IF is_init_list(self) THEN
    LET \* at::empty(sizes_, options.device(at::kCPU)) under the guard
        st0 == FillState(
                 "ok", [i \in 1..numel(self.sizes_) |-> uninit],
                 dtype_of(options), "CPU",
                 <<Call("empty", TRUE, gm, "CPU", 0)>>, gm, nv)
        st == fill_tensor(self, [offset |-> 1, sizes |-> self.sizes_], st0)
    IN IF st.status # "ok"
       THEN [status |-> st.status, tensor |-> UndefinedTensor,
             log |-> st.log,
             grad_mode |-> st.grad_mode,
             non_var_type_mode |-> st.non_var_type_mode]
       ELSE \* return tensor.to(options.device())
            [status |-> "ok",
             tensor |-> [sizes |-> self.sizes_, kind |-> st.kind,
                         device |-> options.device, storage |-> st.storage,
                         defined |-> TRUE],
             log |-> Append(st.log, Call("to", st.non_var_type_mode,
                                         st.grad_mode, options.device, 0)),
             grad_mode |-> st.grad_mode,
             non_var_type_mode |-> st.non_var_type_mode]
  ELSE IF is_tensor(self) THEN
    \* return tensor_.to(options): an unset dtype keeps the tensor's own
    LET kind == IF options.dtype = "Unset" THEN self.tensor_.kind
                ELSE options.dtype
    IN [status |-> "ok",
        tensor |-> [sizes |-> self.tensor_.sizes, kind |-> kind,
                    device |-> options.device,
                    storage |-> [i \in 1..Len(self.tensor_.storage) |->
                                   Cast(self.tensor_.storage[i], kind)],
                    defined |-> TRUE],
        log |-> <<Call("to", nv, gm, options.device, 0)>>,
        grad_mode |-> gm, non_var_type_mode |-> nv]
  ELSE
    [status |-> "InternalInvariant", tensor |-> UndefinedTensor,
     log |-> <<>>, grad_mode |-> gm, non_var_type_mode |-> nv]

Init ==
  /\ stack = <<>>
  /\ res = Result("none", "ok", <<>>, NoContainer, NoOptions,
                  UndefinedTensor, <<>>)
  /\ grad_mode = TRUE
  /\ non_var_type_mode = FALSE

Push(c) == stack' = Append(stack, c)

CanPush == Len(stack) < MaxStack /\ NodesOfSeq(stack) < MaxNodes

\* TensorDataContainer::TensorDataContainer()
DefaultConstruct ==
  /\ CanPush
  /\ Push(DefaultContainer)
  /\ res' = Result("default", "ok", <<>>, DefaultContainer, NoOptions,
                   UndefinedTensor, <<>>)
  /\ UNCHANGED <<grad_mode, non_var_type_mode>>

\* TensorDataContainer::TensorDataContainer(T value)
FromScalar ==
  /\ CanPush
  /\ \E k \in LeafKinds : \E v \in ValuesOf(k) :
       /\ Push(ScalarContainer(k, v))
       /\ res' = Result("from_scalar", "ok", <<>>, ScalarContainer(k, v),
                        NoOptions, UndefinedTensor, <<>>)
  /\ UNCHANGED <<grad_mode, non_var_type_mode>>

\* the arrays handed to the ArrayRef constructor: 1, 2, ..., n in kind k
FlatValues(k) ==
  {[i \in 1..n |-> Cast(i, k)] : n \in 0..MaxFlatLen}

\* TensorDataContainer::TensorDataContainer(at::ArrayRef<T> values)
FromFlat ==
  /\ CanPush
  /\ \E k \in LeafKinds : \E values \in FlatValues(k) :
       LET c == TensorContainer(k, values)
           \* AutoNonVariableTypeMode non_var_type_mode(true) is in scope
           log == <<Call("tensor", TRUE, grad_mode, "CPU", 0)>>
       IN /\ Push(c)
          /\ res' = Result("from_flat", "ok", <<>>, c, NoOptions,
                           c.tensor_, log)
  \* the guard's destructor puts the mode back
  /\ UNCHANGED <<grad_mode, non_var_type_mode>>

\* TensorDataContainer::TensorDataContainer(std::initializer_list<...>)
\* A failed TORCH_CHECK throws out of the whole literal expression, whose
\* temporaries are destroyed: the stack is left empty.  An empty list makes
\* the constructor read *(init_list.begin()) out of bounds: the process
\* crashes, or a container is built from what the read found, and the
\* evaluation that has run into undefined behaviour is followed no further.
FromBraceList ==
  \E n \in 0..Len(stack) :
    LET init_list == SubSeq(stack, Len(stack) - n + 1, Len(stack))
        rest == SubSeq(stack, 1, Len(stack) - n)
    IN /\ NodesOfSeq(stack) < MaxNodes
       /\ IF n = 0
          THEN /\ stack' = <<>>
               /\ \/ \E g \in GarbageElems :
                       res' = Result("from_brace_list", "ok", init_list,
                                     InitListContainer(init_list, g),
                                     NoOptions, UndefinedTensor, <<>>)
                  \/ res' = Result("from_brace_list", "Crash", init_list,
                                   NoContainer, NoOptions, UndefinedTensor,
                                   <<>>)
          ELSE LET first_elem == init_list[1]
                   status == check_elems(init_list, first_elem, 1)
                   c == InitListContainer(init_list, first_elem)
               IN IF status = "ok"
                  THEN /\ stack' = Append(rest, c)
                       /\ res' = Result("from_brace_list", "ok", init_list, c,
                                        NoOptions, UndefinedTensor, <<>>)
                  ELSE /\ stack' = <<>>
                       /\ res' = Result("from_brace_list", status, init_list,
                                        NoContainer, NoOptions,
                                        UndefinedTensor, <<>>)
       /\ UNCHANGED <<grad_mode, non_var_type_mode>>

\* the literal is complete: one container is left
Finished == Len(stack) = 1

\* TensorDataContainer::convert_to_tensor, called on the finished literal
Materialize ==
  /\ Finished
  /\ \E options \in OptionsSet : \E uninit \in UninitValues :
       LET r == convert_to_tensor(stack[1], options, grad_mode,
                                  non_var_type_mode, uninit)
       IN /\ res' = Result("convert_to_tensor", r.status, <<>>, stack[1],
                           options, r.tensor, r.log)
          /\ grad_mode' = r.grad_mode
          /\ non_var_type_mode' = r.non_var_type_mode
  /\ UNCHANGED stack

\* an accessor without its TORCH_CHECK
Accessor_Unchecked(name, pred, member) ==
  /\ Finished
  /\ res' = [Result(name, "ok", <<>>, stack[1], NoOptions, UndefinedTensor,
                    <<>>)
               EXCEPT !.payload = member]
  /\ UNCHANGED <<stack, grad_mode, non_var_type_mode>>

\* an accessor: TORCH_CHECK(pred, ...) and then `return member`; the methods
\* are const and write no member
Accessor(name, pred, member) ==
  /\ Finished
  /\ res' = [Result(name, IF pred THEN "ok" ELSE "Misuse", <<>>, stack[1],
                    NoOptions, UndefinedTensor, <<>>)
               EXCEPT !.payload = IF pred THEN member ELSE 0]
  /\ UNCHANGED <<stack, grad_mode, non_var_type_mode>>

\* TensorDataContainer::scalar()
scalar == Accessor("scalar", is_scalar(stack[1]), stack[1].scalar_)

\* TensorDataContainer::init_list()
init_list == Accessor("init_list", is_init_list(stack[1]), stack[1].init_list_)

\* TensorDataContainer::tensor()
tensor == Accessor("tensor", is_tensor(stack[1]), stack[1].tensor_)

Next ==
  \/ DefaultConstruct
  \/ FromScalar
  \/ FromFlat
  \/ FromBraceList
  \/ Materialize
  \/ scalar
  \/ init_list
  \/ tensor

Spec == Init /\ [][Next]_vars

\* ------------------------------------------------------------ the claims
IsBraceList == res.op = "from_brace_list"
IsConvert == res.op = "convert_to_tensor"

\* the positions of the elements that differ from the first in sizes / kind
ShapeDiffs(ch) == {i \in 1..Len(ch) : ch[i].sizes_ # ch[1].sizes_}
KindDiffs(ch) == {i \in 1..Len(ch) : ch[i].scalar_type_ # ch[1].scalar_type_}
Least(S) == CHOOSE x \in S : \A y \in S : x <= y

\* C1: a non-empty list whose elements all have the sizes and the scalar type
\* of the first is built: the result is an InitList whose sizes are the number
\* of elements followed by the first element's sizes, and whose scalar type is
\* the first element's.
C1_UniformListIsBuilt ==
  (IsBraceList /\ res.children # <<>>
     /\ ShapeDiffs(res.children) = {} /\ KindDiffs(res.children) = {})
  => /\ res.status = "ok"
     /\ stack # <<>> /\ stack[Len(stack)] = res.container
     /\ res.container.type_ = "InitList"
     /\ res.container.sizes_
          = <<Len(res.children)>> \o res.children[1].sizes_
     /\ res.container.scalar_type_ = res.children[1].scalar_type_
     /\ res.container.init_list_ = res.children

\* a list of two or more lists of different extent has been built
C1_Witness ==
  /\ IsBraceList /\ res.status = "ok"
  /\ Len(res.children) >= 1
  /\ Len(res.children[1].sizes_) = 1
  /\ res.children[1].sizes_[1] # Len(res.children)
  /\ res.children[1].scalar_type_ = "Int"

\* C2 as stated: whenever some element's sizes differ from the first's, the
\* construction fails with ShapeMismatch and builds nothing.
C2_AnyShapeDiffIsShapeMismatch ==
  (IsBraceList /\ ShapeDiffs(res.children) # {})
  => res.status = "ShapeMismatch" /\ res.container = NoContainer

\* C2 amended: whenever some element's sizes differ from the first's, the
\* construction fails and builds nothing; it fails with ShapeMismatch when no
\* element before the first one of differing sizes differs from the first in
\* scalar type, and with KindMismatch otherwise.
C2_ShapeDiffFails ==
  (IsBraceList /\ ShapeDiffs(res.children) # {})
  => /\ res.container = NoContainer
     /\ stack = <<>>
     /\ res.status =
          IF \A m \in KindDiffs(res.children) :
               m >= Least(ShapeDiffs(res.children))
          THEN "ShapeMismatch" ELSE "KindMismatch"

\* the element of differing sizes is not the second one, and it also differs
\* in kind; the construction failed with ShapeMismatch
C2_Witness ==
  /\ IsBraceList /\ res.status = "ShapeMismatch"
  /\ Len(res.children) = 3
  /\ ShapeDiffs(res.children) = {3}
  /\ KindDiffs(res.children) = {3}

\* C3 as stated: whenever some element's scalar type differs from the
\* first's, the construction fails with KindMismatch and builds nothing.
C3_AnyKindDiffIsKindMismatch ==
  (IsBraceList /\ KindDiffs(res.children) # {})
  => res.status = "KindMismatch" /\ res.container = NoContainer

\* C3 amended: whenever some element's scalar type differs from the first's,
\* the construction fails and builds nothing; it fails with KindMismatch when
\* every element up to and including the first one of differing scalar type
\* has the first element's sizes, and with ShapeMismatch otherwise.
C3_KindDiffFails ==
  (IsBraceList /\ KindDiffs(res.children) # {})
  => /\ res.container = NoContainer
     /\ stack = <<>>
     /\ res.status =
          IF \A m \in ShapeDiffs(res.children) :
               m > Least(KindDiffs(res.children))
          THEN "KindMismatch" ELSE "ShapeMismatch"

\* the element of differing kind is the last of three, all of equal sizes
\* that are not those of a scalar; the construction failed with KindMismatch
C3_Witness ==
  /\ IsBraceList /\ res.status = "KindMismatch"
  /\ Len(res.children) = 3
  /\ KindDiffs(res.children) = {3}
  /\ res.children[1].sizes_ # <<>>

\* C4: the constructor called with an empty list does not fail and builds what
\* the default constructor builds: an InitList of sizes [0] and scalar type
\* Undefined.
C4_EmptyListIsDefault ==
  (IsBraceList /\ res.children = <<>>)
  => /\ res.status = "ok"
     /\ res.container.type_ = DefaultContainer.type_
     /\ res.container.sizes_ = DefaultContainer.sizes_
     /\ res.container.scalar_type_ = DefaultContainer.scalar_type_

\* no container of the tree holds a tensor built from a flat array
RECURSIVE NoFlat(_)
NoFlat(c) ==
  /\ c.type_ # "Tensor"
  /\ \A i \in 1..Len(c.init_list_) : NoFlat(c.init_list_[i])

\* the multi-indices of a tensor of the given sizes
RECURSIVE Indices(_)
Indices(sizes) ==
  IF sizes = <<>> THEN {<<>>}
  ELSE {<<i>> \o r : i \in 1..Head(sizes), r \in Indices(Tail(sizes))}

\* the storage cell of a multi-index, row-major
RECURSIVE CellOf(_, _)
CellOf(sizes, idx) ==
  IF idx = <<>> THEN 1
  ELSE (Head(idx) - 1) * numel(Tail(sizes)) + CellOf(Tail(sizes), Tail(idx))

\* the scalar reached by following element idx[1], then idx[2], ...
RECURSIVE Leaf(_, _)
Leaf(c, idx) ==
  IF idx = <<>> THEN c.scalar_ ELSE Leaf(c.init_list_[Head(idx)], Tail(idx))

CallsOf(log, ops) == SelectSeq(log, LAMBDA e : e.op \in ops)

\* the tensor has the container's sizes and every leaf was written once, to
\* its own cell
ShapeAndWrites(c, t, log) ==
  /\ t.sizes = c.sizes_
  /\ Len(t.storage) = numel(c.sizes_)
  /\ Len(CallsOf(log, {"fill_", "scalar_tensor"})) = numel(c.sizes_)
  /\ is_init_list(c) =>
       \A idx \in Indices(c.sizes_) :
         Len(SelectSeq(log, LAMBDA e : e.op = "fill_"
                                       /\ e.cell = CellOf(c.sizes_, idx))) = 1

\* C5 as stated: converting a container made of scalars and lists only gives
\* a tensor of the container's sizes whose element at every multi-index
\* equals the scalar reached along that index, each scalar written once.
C5_ElementsEqualLeaves ==
  (IsConvert /\ NoFlat(res.container))
  => /\ res.status = "ok"
     /\ ShapeAndWrites(res.container, res.tensor, res.log)
     /\ \A idx \in Indices(res.container.sizes_) :
          res.tensor.storage[CellOf(res.container.sizes_, idx)]
            = Leaf(res.container, idx)

\* C5 amended: ... whose element at every multi-index equals the scalar
\* reached along that index converted to the element kind of the tensor,
\* each scalar written once and to no other position.
C5_ElementsAreConvertedLeaves ==
  (IsConvert /\ NoFlat(res.container))
  => /\ res.status = "ok"
     /\ ShapeAndWrites(res.container, res.tensor, res.log)
     /\ \A idx \in Indices(res.container.sizes_) :
          res.tensor.storage[CellOf(res.container.sizes_, idx)]
            = Cast(Leaf(res.container, idx), res.tensor.kind)

\* a list of two lists holding different scalars has been converted
C5_Witness ==
  /\ IsConvert /\ res.status = "ok"
  /\ NoFlat(res.container)
  /\ res.container.sizes_ = <<2, 1>>
  /\ res.tensor.storage = <<1, 2>>

\* the thread is in non-tracking mode
NonTracking(e) == e.non_var_type_mode \/ ~e.grad_mode

Producing == {"tensor", "scalar_tensor", "empty", "index", "to"}

\* C6: every ATen call that produces a tensor, in the ArrayRef constructor and
\* in convert_to_tensor / fill_tensor, is made in non-tracking mode, and the
\* modes are afterwards what they were before the operation.
C6_ProducingCallsAreNonTracking ==
  /\ \A i \in 1..Len(res.log) :
       res.log[i].op \in Producing => NonTracking(res.log[i])
  /\ grad_mode = TRUE
  /\ non_var_type_mode = FALSE

\* C7: converting an InitList for a device other than the CPU makes exactly
\* one transfer, after the last write; every write is to a CPU tensor; and
\* the number of writes is the number of elements.
C7_OneTransferAfterWrites ==
  (IsConvert /\ is_init_list(res.container) /\ res.options.device # "CPU")
  => /\ Len(CallsOf(res.log, {"to"})) = 1
     /\ res.log[Len(res.log)].op = "to"
     /\ \A i \in 1..Len(res.log) :
          res.log[i].op = "fill_" => res.log[i].device = "CPU"
     /\ Len(CallsOf(res.log, {"fill_"})) = numel(res.container.sizes_)

\* the same, for lists that hold no tensor built from a flat array
C7_HoldsWithoutFlat ==
  NoFlat(res.container) => C7_OneTransferAfterWrites

Accessors == {"scalar", "init_list", "tensor"}

ExactlyOneVariant(c) ==
  /\ is_scalar(c) \/ is_init_list(c) \/ is_tensor(c)
  /\ ~(is_scalar(c) /\ is_init_list(c))
  /\ ~(is_scalar(c) /\ is_tensor(c))
  /\ ~(is_init_list(c) /\ is_tensor(c))

\* C8: scalar() succeeds iff is_scalar(), init_list() iff is_init_list(),
\* tensor() iff is_tensor(); a call on another variant fails with Misuse, a
\* successful call returns the member; exactly one predicate is true of every
\* container; and the container is the same after the call as before.
C8_AccessorDiscipline ==
  /\ \A i \in 1..Len(stack) : ExactlyOneVariant(stack[i])
  /\ res.op \in Accessors =>
       LET c == res.container
           variant == CASE res.op = "scalar" -> "Scalar"
                        [] res.op = "init_list" -> "InitList"
                        [] res.op = "tensor" -> "Tensor"
       IN /\ stack = <<c>>
          /\ res.status = IF c.type_ = variant THEN "ok" ELSE "Misuse"
          /\ (res.op = "scalar" /\ is_scalar(c)) => res.payload = c.scalar_
          /\ (res.op = "init_list" /\ is_init_list(c))
               => res.payload = c.init_list_
          /\ (res.op = "tensor" /\ is_tensor(c)) => res.payload = c.tensor_

\* scalar() has been called on a list and has failed
C8_Witness ==
  /\ res.op = "scalar" /\ res.status = "Misuse"
  /\ is_init_list(res.container) /\ Len(res.container.init_list_) = 2
  /\ stack = <<res.container>>

\* C9: the tensor has the container's scalar type when the options set no
\* dtype, and the dtype of the options when they set one.
C9_KindFollowsOptions ==
  (IsConvert /\ res.status = "ok")
  => res.tensor.kind = IF res.options.dtype = "Unset"
                       THEN res.container.scalar_type_
                       ELSE res.options.dtype

\* the half of C9 that concerns options with a dtype
C9_SetDtypeIsKept ==
  (IsConvert /\ res.status = "ok" /\ res.options.dtype # "Unset")
  => res.tensor.kind = res.options.dtype

\* C10: converting a container built through the constructors never ends in
\* an internal assertion failure (fill_tensor never reaches a Tensor
\* container).
C10_NoInternalInvariant ==
  IsConvert => res.status # "InternalInvariant"
====
